---- MODULE Spec2Model ----
(***************************************************************************)
(* A model of the two header-chain layers of blockchain-from-scratch:      *)
(*   src/src/c2_blockchain/p2_extrinsic_state.rs  (Linked-State Layer)     *)
(*   src/src/c2_blockchain/p3_consensus.rs        (Consensus Layer)        *)
(*                                                                         *)
(* genesis, child and the verify_sub_chain family are pure functions.  The *)
(* state machine is a caller of that API: it builds a chain with child,    *)
(* may hand in one externally supplied (forged) header, may move the       *)
(* anchor forward, and calls the verifiers; `last` records the last call   *)
(* and what it returned.                                                   *)
(*                                                                         *)
(* u64 is scaled to WordBits bits; every sum is taken as the build takes   *)
(* it: with overflow checks on (the debug and test profile) an overflowing *)
(* `+` panics, with them off (release) it wraps.                           *)
(***************************************************************************)
EXTENDS Integers, Sequences, FiniteSets

VARIABLES
    layer,            \* which source file's Header the caller uses: "p2" or "p3"
    hash_key,         \* selects the digest function of crate::hash
    overflow_checks,  \* TRUE: arithmetic overflow panics; FALSE: it wraps
    anchor,           \* the header verification starts from
    chain,            \* the candidate sequence handed to the verifiers
    forged,           \* TRUE once a header was written without child()
    built,            \* how many headers child() has returned
    fork,             \* two chains grown side by side from the same genesis
    last              \* the last API call and its outcome

vars == <<layer, hash_key, overflow_checks, anchor, chain, forged, built, fork, last>>

----------------------------------------------------------------------------
\* Bounds of the model.

\* Width of the scaled u64 (Hash = u64 as well).
WordBits == 8

\* Most headers the caller builds with child().
MaxLen == 3

\* Digest functions tried.
HashKeys == {1, 2}

----------------------------------------------------------------------------
\* Integers of the program.

U64_MAX == 2^WordBits - 1

Overflows(a, b) == a + b > U64_MAX

wrapping_add(a, b) == (a + b) % (U64_MAX + 1)

\* p3_consensus.rs:16
THRESHOLD == U64_MAX \div 100

\* p3_consensus.rs:20
FORK_HEIGHT == 2

\* Extrinsic values the caller passes to child().
Extrinsics == {1, 2, U64_MAX}

\* Values an externally supplied header may carry in a field.
ForgedValues == {10, U64_MAX}

----------------------------------------------------------------------------
\* crate::hash: a deterministic digest over the fields a derived Hash feeds,
\* in declaration order.  One hasher write per field.

hash_write(acc, v) == ((acc + v) * 37 + 11) % (U64_MAX + 1)

\* #[derive(Hash)] of the p2 Header: the unit consensus_digest feeds nothing.
p2_hash(h) ==
    hash_write(hash_write(hash_write(hash_write(hash_key,
        h.parent), h.height), h.extrinsic), h.state)

\* #[derive(Hash)] of the p3 Header.
p3_hash(h) ==
    hash_write(hash_write(hash_write(hash_write(hash_write(hash_key,
        h.parent), h.height), h.extrinsic), h.state), h.consensus_digest)

----------------------------------------------------------------------------
\* Linked-State Layer (p2_extrinsic_state.rs).

p2_genesis ==
    [parent |-> 0, height |-> 0, extrinsic |-> 0, state |-> 0,
     consensus_digest |-> <<>>]

\* self.height + 1 or self.state + extrinsic overflowing.
child_overflows(self, extrinsic) ==
    Overflows(self.height, 1) \/ Overflows(self.state, extrinsic)

\* child leaving the height where it was.
p2_child_same_height(self, extrinsic) ==
    [parent |-> p2_hash(self),
     height |-> self.height,
     extrinsic |-> extrinsic,
     state |-> wrapping_add(self.state, extrinsic),
     consensus_digest |-> <<>>]

\* child taking the extrinsic as the new state, the parent's state forgotten.
p2_child_state_is_extrinsic(self, extrinsic) ==
    [parent |-> p2_hash(self),
     height |-> wrapping_add(self.height, 1),
     extrinsic |-> extrinsic,
     state |-> extrinsic,
     consensus_digest |-> <<>>]

p2_child(self, extrinsic) ==
    [parent |-> p2_hash(self),
     height |-> wrapping_add(self.height, 1),
     extrinsic |-> extrinsic,
     state |-> wrapping_add(self.state, extrinsic),
     consensus_digest |-> <<>>]

\* The loop state of the verifiers: the three `let mut`s, and whether an
\* overflowing sum has panicked.
loop_init(self) ==
    [verifiable |-> TRUE, current_height |-> self.height,
     current_state |-> self.state, panicked |-> FALSE]

\* One pass of the p2 loop body, for chain[i] (block_idx = i - 1).
p2_loop_body(self, sub, i, st) ==
    LET header == sub[i]
        block_idx == i - 1
        first == block_idx = 0
        inner == ~first /\ block_idx # Len(sub) - 1
        ovf == Overflows(st.current_height, 1)
                 \/ Overflows(header.extrinsic, st.current_state)
    IN  IF ~(first \/ inner) THEN st
        ELSE IF overflow_checks /\ ovf THEN [st EXCEPT !.panicked = TRUE]
        ELSE
          LET bad_link == IF first THEN p2_hash(self) # header.parent
                          ELSE p2_hash(header) # sub[i + 1].parent
              bad_height == header.height # wrapping_add(st.current_height, 1)
              bad_state == wrapping_add(header.extrinsic, st.current_state) # header.state
          IN  [verifiable |-> st.verifiable /\ ~bad_link /\ ~bad_height /\ ~bad_state,
               current_height |-> wrapping_add(st.current_height, 1),
               current_state |-> wrapping_add(st.current_state, header.extrinsic),
               panicked |-> FALSE]

RECURSIVE p2_loop(_, _, _, _)
p2_loop(self, sub, i, st) ==
    IF i > Len(sub) \/ st.panicked THEN st
    ELSE p2_loop(self, sub, i + 1, p2_loop_body(self, sub, i, st))

\* What a verifier call comes to: a panic, or the returned boolean.
outcome(st) == [panicked |-> st.panicked, value |-> st.verifiable]

p2_verify_sub_chain(self, sub) == outcome(p2_loop(self, sub, 1, loop_init(self)))

----------------------------------------------------------------------------
\* Consensus Layer (p3_consensus.rs).

\* The nonce search trying every other nonce.
RECURSIVE pow_search_by_two(_, _)
pow_search_by_two(new_block, nonce) ==
    IF p3_hash(new_block) > THRESHOLD
    THEN pow_search_by_two([new_block EXCEPT !.consensus_digest = nonce + 2], nonce + 2)
    ELSE new_block

\* The `while hash(&new_block) > THRESHOLD` loop of child.  hash_write is a
\* bijection of its last field, so a nonce below 2^WordBits always ends it.
RECURSIVE pow_search(_, _)
pow_search(new_block, nonce) ==
    IF p3_hash(new_block) > THRESHOLD
    THEN pow_search([new_block EXCEPT !.consensus_digest = nonce + 1], nonce + 1)
    ELSE new_block

\* genesis searching a nonce as child does.
p3_genesis_mined ==
    pow_search([parent |-> 0, height |-> 0, extrinsic |-> 0, state |-> 0,
                consensus_digest |-> 0], 0)

p3_genesis ==
    [parent |-> 0, height |-> 0, extrinsic |-> 0, state |-> 0,
     consensus_digest |-> 0]

\* child taking the extrinsic as the new state, the parent's state forgotten.
p3_child_state_is_extrinsic(self, extrinsic) ==
    pow_search([parent |-> p3_hash(self),
                height |-> wrapping_add(self.height, 1),
                extrinsic |-> extrinsic,
                state |-> extrinsic,
                consensus_digest |-> 0], 0)

\* child copying the parent's state instead of adding the extrinsic.
p3_child_keeps_state(self, extrinsic) ==
    pow_search([parent |-> p3_hash(self),
                height |-> wrapping_add(self.height, 1),
                extrinsic |-> extrinsic,
                state |-> self.state,
                consensus_digest |-> 0], 0)

p3_child(self, extrinsic) ==
    pow_search([parent |-> p3_hash(self),
                height |-> wrapping_add(self.height, 1),
                extrinsic |-> extrinsic,
                state |-> wrapping_add(self.state, extrinsic),
                consensus_digest |-> 0], 0)

\* The checks the three p3 verifiers share in one pass, for chain[i].
\* The checks of one pass with the verdict of earlier passes forgotten.
p3_checks_last_pass_wins(self, sub, i, st) ==
    LET header == sub[i]
        block_idx == i - 1
        bad_pow == p3_hash(header) >= THRESHOLD
        bad_height == header.height # wrapping_add(st.current_height, 1)
        bad_state == wrapping_add(header.extrinsic, st.current_state) # header.state
        bad_link == IF block_idx = 0 THEN p3_hash(self) # header.parent
                    ELSE IF block_idx # Len(sub) - 1
                         THEN p3_hash(header) # sub[i + 1].parent
                         ELSE FALSE
    IN  ~bad_pow /\ ~bad_height /\ ~bad_state /\ ~bad_link

p3_checks(self, sub, i, st) ==
    LET header == sub[i]
        block_idx == i - 1
        bad_pow == p3_hash(header) >= THRESHOLD
        bad_height == header.height # wrapping_add(st.current_height, 1)
        bad_state == wrapping_add(header.extrinsic, st.current_state) # header.state
        bad_link == IF block_idx = 0 THEN p3_hash(self) # header.parent
                    ELSE IF block_idx # Len(sub) - 1
                         THEN p3_hash(header) # sub[i + 1].parent
                         ELSE FALSE
    IN  st.verifiable /\ ~bad_pow /\ ~bad_height /\ ~bad_state /\ ~bad_link

p3_loop_overflows(header, st) ==
    Overflows(st.current_height, 1) \/ Overflows(header.extrinsic, st.current_state)

\* One pass of the baseline loop body: the running height and state move on
\* for the first header and for every header but the last.
p3_loop_body(self, sub, i, st) ==
    LET header == sub[i]
        block_idx == i - 1
        advance == block_idx = 0 \/ block_idx # Len(sub) - 1
    IN  IF overflow_checks /\ p3_loop_overflows(header, st)
        THEN [st EXCEPT !.panicked = TRUE]
        ELSE [verifiable |-> p3_checks(self, sub, i, st),
              current_height |-> IF advance THEN wrapping_add(st.current_height, 1)
                                 ELSE st.current_height,
              current_state |-> IF advance
                                THEN wrapping_add(st.current_state, header.extrinsic)
                                ELSE st.current_state,
              panicked |-> FALSE]

RECURSIVE p3_loop(_, _, _, _)
p3_loop(self, sub, i, st) ==
    IF i > Len(sub) \/ st.panicked THEN st
    ELSE p3_loop(self, sub, i + 1, p3_loop_body(self, sub, i, st))

\* The baseline verifier asking proof of work of the anchor too.
p3_verify_with_anchor_pow(self, sub) ==
    outcome(p3_loop(self, sub, 1,
                    [loop_init(self) EXCEPT !.verifiable = p3_hash(self) < THRESHOLD]))

p3_verify_sub_chain(self, sub) == outcome(p3_loop(self, sub, 1, loop_init(self)))

\* The parity test binding from FORK_HEIGHT on, not from the height after it.
bad_parity_at_fork(current_state, current_height, wrong) ==
    current_state % 2 = wrong /\ current_height >= FORK_HEIGHT

\* The parity test of the partisan verifiers on the running state and height:
\* `current_state % 2 == wrong && current_height > FORK_HEIGHT`.
bad_parity(current_state, current_height, wrong) ==
    current_state % 2 = wrong /\ current_height > FORK_HEIGHT

\* One pass of the even / odd loop body; `wrong` is the rejected remainder.
parity_loop_body(self, sub, i, st, wrong) ==
    LET header == sub[i]
        next_height == wrapping_add(st.current_height, 1)
        next_state == wrapping_add(st.current_state, header.extrinsic)
    IN  IF overflow_checks /\ p3_loop_overflows(header, st)
        THEN [st EXCEPT !.panicked = TRUE]
        ELSE [verifiable |-> p3_checks(self, sub, i, st)
                               /\ ~bad_parity(next_state, next_height, wrong),
              current_height |-> next_height,
              current_state |-> next_state,
              panicked |-> FALSE]

RECURSIVE parity_loop(_, _, _, _, _)
parity_loop(self, sub, i, st, wrong) ==
    IF i > Len(sub) \/ st.panicked THEN st
    ELSE parity_loop(self, sub, i + 1, parity_loop_body(self, sub, i, st, wrong), wrong)

\* The partisan verifiers without their test of the anchor.
parity_init_no_anchor(self, wrong) == loop_init(self)

parity_init(self, wrong) ==
    [loop_init(self) EXCEPT !.verifiable = ~bad_parity(self.state, self.height, wrong)]

verify_sub_chain_even(self, sub) ==
    outcome(parity_loop(self, sub, 1, parity_init(self, 1), 1))

verify_sub_chain_odd(self, sub) ==
    outcome(parity_loop(self, sub, 1, parity_init(self, 0), 0))

----------------------------------------------------------------------------
\* The caller.

NoCall == [op |-> "none", panicked |-> FALSE]

\* Two empty branches, and the extrinsics handed to child for each.
NoFork == [a |-> <<>>, b |-> <<>>, ea |-> <<>>, eb |-> <<>>, panicked |-> FALSE]

\* The header a new block is built on.
Tip == IF chain = <<>> THEN anchor ELSE chain[Len(chain)]

Init ==
    /\ layer \in {"p2", "p3"}
    /\ hash_key \in HashKeys
    /\ overflow_checks \in BOOLEAN
    /\ anchor = (IF layer = "p2" THEN p2_genesis ELSE p3_genesis)
    /\ chain = <<>>
    /\ forged = FALSE
    /\ built = 0
    /\ fork = NoFork
    /\ last = NoCall

\* A call of child on the tip; a panic ends the run.
ChildCall(self, extrinsic, ret) ==
    LET panics == overflow_checks /\ child_overflows(self, extrinsic)
    IN  /\ last' = [op |-> "child", panicked |-> panics, self |-> self,
                    extrinsic |-> extrinsic, ret |-> IF panics THEN self ELSE ret]
        /\ chain' = IF panics THEN chain ELSE Append(chain, ret)
        /\ built' = IF panics THEN built ELSE built + 1
        /\ UNCHANGED <<layer, hash_key, overflow_checks, anchor, forged, fork>>

P2Child(extrinsic) ==
    /\ layer = "p2" /\ ~last.panicked /\ built < MaxLen
    /\ ChildCall(Tip, extrinsic, p2_child(Tip, extrinsic))

P3Child(extrinsic) ==
    /\ layer = "p3" /\ ~last.panicked /\ built < MaxLen
    /\ ChildCall(Tip, extrinsic, p3_child(Tip, extrinsic))

\* The header at position i with field f overwritten (position 0: the anchor).
Forge(i, h) ==
    /\ anchor' = IF i = 0 THEN h ELSE anchor
    /\ chain' = IF i = 0 THEN chain ELSE [chain EXCEPT ![i] = h]
    /\ forged' = TRUE
    /\ last' = NoCall
    /\ UNCHANGED <<layer, hash_key, overflow_checks, built, fork>>

HeaderAt(i) == IF i = 0 THEN anchor ELSE chain[i]

\* As the tests do (`b1.parent = 10`): one field of one header is set directly.
P2Tamper(i, f, v) ==
    /\ layer = "p2" /\ ~last.panicked /\ ~forged
    /\ HeaderAt(i)[f] # v
    /\ Forge(i, [HeaderAt(i) EXCEPT ![f] = v])

\* The same in the Consensus Layer; with `mine` the forger searches a nonce
\* for the altered header as child does.
P3Tamper(i, f, v, mine) ==
    /\ layer = "p3" /\ ~last.panicked /\ ~forged
    /\ HeaderAt(i)[f] # v
    /\ LET h == [HeaderAt(i) EXCEPT ![f] = v]
       IN  Forge(i, IF mine THEN pow_search([h EXCEPT !.consensus_digest = 0], 0) ELSE h)

\* The caller takes the first candidate as the new anchor.
Reanchor ==
    /\ ~last.panicked /\ ~forged /\ chain # <<>>
    /\ anchor' = Head(chain)
    /\ chain' = Tail(chain)
    /\ last' = NoCall
    /\ UNCHANGED <<layer, hash_key, overflow_checks, forged, built, fork>>

P2Verify ==
    /\ layer = "p2" /\ ~last.panicked /\ last.op # "verify"
    /\ LET base == p2_verify_sub_chain(anchor, chain)
       IN  last' = [op |-> "verify", panicked |-> base.panicked, base |-> base]
    /\ UNCHANGED <<layer, hash_key, overflow_checks, anchor, chain, forged, built, fork>>

P3Verify ==
    /\ layer = "p3" /\ ~last.panicked /\ last.op # "verify"
    /\ LET base == p3_verify_sub_chain(anchor, chain)
           even == verify_sub_chain_even(anchor, chain)
           odd == verify_sub_chain_odd(anchor, chain)
       IN  last' = [op |-> "verify",
                    panicked |-> base.panicked \/ even.panicked \/ odd.panicked,
                    base |-> base, even |-> even, odd |-> odd]
    /\ UNCHANGED <<layer, hash_key, overflow_checks, anchor, chain, forged, built, fork>>

P2Fields == {"parent", "height", "extrinsic", "state"}

P3Fields == P2Fields \cup {"consensus_digest"}

Next ==
    \/ \E e \in Extrinsics : P2Child(e)
    \/ \E e \in Extrinsics : P3Child(e)
    \/ \E i \in 0..Len(chain), f \in P2Fields, v \in ForgedValues : P2Tamper(i, f, v)
    \/ \E i \in 0..Len(chain), f \in P3Fields, v \in ForgedValues, mine \in BOOLEAN :
          P3Tamper(i, f, v, mine)
    \/ Reanchor
    \/ P2Verify
    \/ P3Verify

Spec == Init /\ [][Next]_vars

\* build_forked_chain: both branches start at the same genesis and grow by
\* child alone, each with extrinsics of its own.
ForkTip(branch) == IF branch = <<>> THEN anchor ELSE branch[Len(branch)]

ForkChild(side, extrinsic) ==
    LET branch == IF side = "a" THEN fork.a ELSE fork.b
        self == ForkTip(branch)
        ret == IF layer = "p2" THEN p2_child(self, extrinsic)
               ELSE p3_child(self, extrinsic)
    IN  /\ ~fork.panicked /\ Len(branch) < MaxLen
        /\ fork' = IF overflow_checks /\ child_overflows(self, extrinsic)
                   THEN [fork EXCEPT !.panicked = TRUE]
                   ELSE IF side = "a"
                        THEN [fork EXCEPT !.a = Append(@, ret),
                                          !.ea = Append(@, extrinsic)]
                        ELSE [fork EXCEPT !.b = Append(@, ret),
                                          !.eb = Append(@, extrinsic)]
        /\ UNCHANGED <<layer, hash_key, overflow_checks, anchor, chain, forged,
                       built, last>>

NextFork == \E side \in {"a", "b"}, e \in Extrinsics : ForkChild(side, e)

SpecFork == Init /\ [][NextFork]_vars

----------------------------------------------------------------------------
\* What the claims speak of.

IsVerify == last.op = "verify" /\ ~last.panicked

IsChild == last.op = "child" /\ ~last.panicked

\* The logical predecessor of candidate i: the anchor for the first one.
Pred(i) == HeaderAt(i - 1)

\* u64 sums as the claims write them.
Plus(a, b) == (a + b) % (U64_MAX + 1)

RECURSIVE SumSeq(_)
SumSeq(xs) == IF xs = <<>> THEN 0 ELSE Head(xs) + SumSeq(Tail(xs))

RECURSIVE SumExtrinsics(_)
SumExtrinsics(sub) ==
    IF sub = <<>> THEN 0 ELSE Head(sub).extrinsic + SumExtrinsics(Tail(sub))

\* The candidates are exactly what child() returned, starting at genesis, and
\* no sum overflowed on the way.
BuiltFromGenesis ==
    /\ ~forged
    /\ anchor = (IF layer = "p2" THEN p2_genesis ELSE p3_genesis)
    /\ Len(chain) = built
    /\ SumExtrinsics(chain) <= U64_MAX

P2Linked(pred, cand) ==
    /\ cand.parent = p2_hash(pred)
    /\ cand.height = Plus(pred.height, 1)
    /\ Plus(cand.extrinsic, pred.state) = cand.state

P3Linked(pred, cand) ==
    /\ cand.parent = p3_hash(pred)
    /\ cand.height = Plus(pred.height, 1)
    /\ Plus(cand.extrinsic, pred.state) = cand.state

\* Every header, anchor included, above FORK_HEIGHT has a state of parity p.
ParityHolds(p) ==
    \A i \in 0..Len(chain) :
        HeaderAt(i).height > FORK_HEIGHT => HeaderAt(i).state % 2 = p

SomePostFork == \E i \in 0..Len(chain) : HeaderAt(i).height > FORK_HEIGHT

----------------------------------------------------------------------------
\* C1: in the Linked-State Layer verify_sub_chain returns true if and only if
\* every candidate, the last one included, has parent == digest(predecessor),
\* height == predecessor.height + 1 and extrinsic + predecessor.state == state.
C1_VerifyIffAllLinked ==
    (layer = "p2" /\ IsVerify) =>
        (last.base.value <=> \A i \in 1..Len(chain) : P2Linked(Pred(i), chain[i]))

\* C2: in the Consensus Layer verify_sub_chain returns true if and only if
\* every candidate passes the linkage, height and state checks against its
\* predecessor and has digest(candidate) < THRESHOLD.
C2_VerifyIffAllLinkedAndMined ==
    (layer = "p3" /\ IsVerify) =>
        (last.base.value <=>
            \A i \in 1..Len(chain) :
                P3Linked(Pred(i), chain[i]) /\ p3_hash(chain[i]) < THRESHOLD)

\* C3: the header child returns has a digest strictly below THRESHOLD.
C3_ChildBelowThreshold ==
    (layer = "p3" /\ IsChild) => p3_hash(last.ret) < THRESHOLD

\* C4: a Consensus Layer chain built from genesis by child alone, with no sum
\* overflowing, is accepted by verify_sub_chain anchored at genesis.
C4_BuiltChainAccepted ==
    (layer = "p3" /\ last.op = "verify" /\ BuiltFromGenesis) =>
        (~last.panicked /\ last.base.value)

\* C5: a Linked-State Layer chain built from genesis by child alone, with no
\* sum overflowing, is accepted by verify_sub_chain anchored at genesis,
\* whichever extrinsics were chosen (so every branch of a fork is).
C5_P2BuiltChainAccepted ==
    (layer = "p2" /\ last.op = "verify" /\ BuiltFromGenesis) =>
        (~last.panicked /\ last.base.value)

C5_Witness ==
    /\ layer = "p2" /\ IsVerify /\ BuiltFromGenesis
    /\ Len(chain) >= 3
    /\ chain[2].extrinsic # chain[3].extrinsic
    /\ last.base.value

\* C6: in both layers the header child(H, e) returns has height H.height + 1,
\* parent digest(H), extrinsic e and state H.state + e (u64 sums), and H is
\* left as it was.
C6_ChildInvariants ==
    IsChild =>
        LET H == last.self
            r == last.ret
        IN  /\ r.height = Plus(H.height, 1)
            /\ r.parent = (IF layer = "p2" THEN p2_hash(H) ELSE p3_hash(H))
            /\ r.extrinsic = last.extrinsic
            /\ r.state = Plus(H.state, last.extrinsic)
            /\ chain[Len(chain)] = r
            /\ Pred(Len(chain)) = H

\* A Consensus Layer child that needed PoW retries.
C6_Witness ==
    /\ layer = "p3" /\ IsChild
    /\ last.ret.consensus_digest > 0
    /\ last.extrinsic = 2
    /\ last.ret.state = last.self.state + 2
    /\ last.ret.height = last.self.height + 1
    /\ last.self.consensus_digest > 0

\* C7: verify_sub_chain_even / _odd return true if and only if the baseline
\* verify_sub_chain does and every header, anchor included, whose height is
\* above FORK_HEIGHT has a state of that parity; the three abort together.
C7_ParityIsBaselinePlusParity ==
    (layer = "p3" /\ last.op = "verify") =>
        /\ last.even.panicked = last.base.panicked
        /\ last.odd.panicked = last.base.panicked
        /\ ~last.panicked =>
            /\ last.even.value <=> (last.base.value /\ ParityHolds(0))
            /\ last.odd.value <=> (last.base.value /\ ParityHolds(1))

\* An anchor above FORK_HEIGHT with an even state and no candidates: the odd
\* rule rejects what the baseline accepts.
C7_Witness ==
    /\ layer = "p3" /\ IsVerify
    /\ chain = <<>>
    /\ anchor.height > FORK_HEIGHT /\ anchor.state % 2 = 0
    /\ last.base.value /\ last.even.value /\ ~last.odd.value

\* C8: with a header above FORK_HEIGHT the even and odd verifiers never both
\* accept; a chain built with child whose post-fork states are all even is
\* accepted by the even and the baseline verifier and rejected by the odd
\* one, and the other way round for odd post-fork states.
C8_PartisanExclusive ==
    (layer = "p3" /\ IsVerify) =>
        /\ SomePostFork => ~(last.even.value /\ last.odd.value)
        /\ (BuiltFromGenesis /\ SomePostFork /\ ParityHolds(0)) =>
              (last.even.value /\ ~last.odd.value /\ last.base.value)
        /\ (BuiltFromGenesis /\ SomePostFork /\ ParityHolds(1)) =>
              (last.odd.value /\ ~last.even.value /\ last.base.value)

\* Header i has the parity the rule p rejects.
WrongParity(i, p) == HeaderAt(i).state % 2 # p

\* C9: a wrong-parity header at height <= FORK_HEIGHT never makes a partisan
\* verifier reject what the baseline accepts; one at height FORK_HEIGHT + 1
\* always makes it reject; with every header at or below FORK_HEIGHT the
\* three verdicts are the same.
C9_ForkHeightBoundary ==
    (layer = "p3" /\ IsVerify) =>
        LET verdict(p) == IF p = 0 THEN last.even.value ELSE last.odd.value
            positions == 0..Len(chain)
        IN  /\ \A p \in {0, 1} :
                  /\ (last.base.value
                        /\ \A i \in positions :
                              WrongParity(i, p) => HeaderAt(i).height <= FORK_HEIGHT)
                      => verdict(p)
                  /\ (\E i \in positions :
                          WrongParity(i, p) /\ HeaderAt(i).height = FORK_HEIGHT + 1)
                      => ~verdict(p)
            /\ (\A i \in positions : HeaderAt(i).height <= FORK_HEIGHT) =>
                  (last.even.value = last.base.value /\ last.odd.value = last.base.value)

\* An odd state at height FORK_HEIGHT, an even one right above it: the even
\* rule accepts.
C9_Witness ==
    /\ layer = "p3" /\ IsVerify /\ Len(chain) >= 2
    /\ \E i \in 1..(Len(chain) - 1) :
          /\ chain[i].height = FORK_HEIGHT /\ chain[i].state % 2 = 1
          /\ chain[i + 1].height = FORK_HEIGHT + 1 /\ chain[i + 1].state % 2 = 0
    /\ last.base.value /\ last.even.value /\ ~last.odd.value

\* C10: verify_sub_chain (both layers), verify_sub_chain_even and
\* verify_sub_chain_odd return a boolean for every anchor and every candidate
\* sequence over the whole u64 range; no sum aborts.
C10_VerifyNeverAborts ==
    last.op = "verify" => ~last.panicked

----------------------------------------------------------------------------
\* The first position at which two extrinsic sequences of one length differ.
RECURSIVE FirstDiff(_, _, _)
FirstDiff(xs, ys, k) ==
    IF xs[k] # ys[k] THEN k ELSE FirstDiff(xs, ys, k + 1)

\* Both branches have the same length and were given different extrinsics.
Diverged ==
    /\ ~fork.panicked
    /\ Len(fork.a) = Len(fork.b)
    /\ fork.ea # fork.eb

\* C12 as stated: two chains of equal length built from one genesis by child
\* alone, with extrinsic sequences that differ somewhere, are unequal as
\* sequences, unequal at the first differing position, and unequal in their
\* last headers.
C12_ForksDistinctToTheTip ==
    Diverged =>
        LET k == FirstDiff(fork.ea, fork.eb, 1)
            n == Len(fork.a)
        IN  /\ fork.a # fork.b
            /\ fork.a[k] # fork.b[k]
            /\ fork.a[n] # fork.b[n]

\* C12 amended: such chains are unequal as sequences and unequal at the first
\* differing position; their last headers are unequal when the last
\* extrinsics differ or the sums of the extrinsics differ (mod 2^64).
C12_ForksDistinct ==
    Diverged =>
        LET k == FirstDiff(fork.ea, fork.eb, 1)
            n == Len(fork.a)
        IN  /\ fork.a # fork.b
            /\ fork.a[k] # fork.b[k]
            /\ (fork.ea[n] # fork.eb[n]
                  \/ SumSeq(fork.ea) % (U64_MAX + 1) # SumSeq(fork.eb) % (U64_MAX + 1))
               => fork.a[n] # fork.b[n]

\* Two branches that part at the first header and still differ at the tip.
C12_Witness ==
    /\ Diverged
    /\ Len(fork.a) >= 3
    /\ fork.ea[1] # fork.eb[1]
    /\ fork.ea[3] = fork.eb[3]
    /\ fork.a[3] # fork.b[3]

----------------------------------------------------------------------------
\* C11: in both layers the baseline verify_sub_chain(H, []) returns true for
\* every header H, whatever its fields and its digest.
C11_EmptyChainVerifies ==
    (last.op = "verify" /\ chain = <<>>) =>
        (~last.base.panicked /\ last.base.value)

\* An anchor that is not genesis and has no proof of work.
C11_Witness ==
    /\ layer = "p3" /\ IsVerify /\ chain = <<>>
    /\ anchor # p3_genesis
    /\ p3_hash(anchor) >= THRESHOLD
    /\ last.base.value

\* The anchor is still the header genesis() returned.
AnchorIsGenesis == ~forged /\ Len(chain) = built

\* C13: genesis() returns, in every run, the header with parent, height,
\* extrinsic and state 0 and the zero consensus_digest (unit in the
\* Linked-State Layer, 0 in the Consensus Layer): no nonce is searched.
C13_GenesisIsZero ==
    AnchorIsGenesis =>
        /\ anchor.parent = 0
        /\ anchor.height = 0
        /\ anchor.extrinsic = 0
        /\ anchor.state = 0
        /\ anchor.consensus_digest = (IF layer = "p2" THEN <<>> ELSE 0)

\* A Consensus Layer genesis whose digest a nonce search would not have kept.
C13_Witness ==
    /\ layer = "p3" /\ AnchorIsGenesis /\ built >= 1
    /\ anchor.consensus_digest = 0
    /\ p3_hash(anchor) > THRESHOLD

\* C14: in a chain built from genesis by child alone, with no sum
\* overflowing, the header at position k has height k and state the sum of
\* the extrinsics of headers 1..k, every header is linked to the one before
\* it by digest, height + 1 and state + extrinsic, and heights strictly
\* increase.
C14_ReachableChain ==
    BuiltFromGenesis =>
        /\ \A k \in 1..Len(chain) :
              /\ chain[k].height = k
              /\ chain[k].state = SumExtrinsics(SubSeq(chain, 1, k))
              /\ chain[k].parent = (IF layer = "p2" THEN p2_hash(Pred(k))
                                    ELSE p3_hash(Pred(k)))
              /\ chain[k].height = Pred(k).height + 1
              /\ chain[k].state = Pred(k).state + chain[k].extrinsic
        /\ \A i, j \in 0..Len(chain) :
              i < j => HeaderAt(i).height < HeaderAt(j).height

C14_Witness ==
    /\ layer = "p2" /\ BuiltFromGenesis /\ IsChild
    /\ Len(chain) >= 3
    /\ chain[1].extrinsic = 2 /\ chain[2].extrinsic = 1 /\ chain[3].extrinsic = 2
    /\ chain[3].state = 5 /\ chain[3].height = 3

\* The header child returned, with another nonce.
WithNonce(h, w) == [h EXCEPT !.consensus_digest = w]

\* C15: the nonce child returns is the first of 0, 1, 2, ... whose digest
\* ends the loop (digest <= THRESHOLD); no other field depends on the
\* search; and it is no larger than any nonce whose digest is below
\* THRESHOLD.
C15_PowSearchOrder ==
    (layer = "p3" /\ IsChild) =>
        LET r == last.ret
            H == last.self
        IN  /\ p3_hash(r) <= THRESHOLD
            /\ \A m \in 0..(r.consensus_digest - 1) :
                  p3_hash(WithNonce(r, m)) > THRESHOLD
            /\ \A w \in 0..U64_MAX :
                  p3_hash(WithNonce(r, w)) < THRESHOLD => r.consensus_digest <= w
            /\ WithNonce(r, 0) =
                  [parent |-> p3_hash(H), height |-> Plus(H.height, 1),
                   extrinsic |-> last.extrinsic,
                   state |-> Plus(H.state, last.extrinsic),
                   consensus_digest |-> 0]

\* A search that needed retries and ended below THRESHOLD.
C15_Witness ==
    /\ layer = "p3" /\ IsChild
    /\ last.ret.consensus_digest > 1
    /\ p3_hash(last.ret) < THRESHOLD
    /\ p3_hash(WithNonce(last.ret, 1)) > THRESHOLD

\* The verifier returned false.
Rejects(o) == ~o.panicked /\ ~o.value

\* The verifier returned true.
Accepts(o) == ~o.panicked /\ o.value

Prefix(n) == SubSeq(chain, 1, n)

\* C16: for each of the four verifiers, a sequence with a prefix the
\* verifier rejects against the same anchor is never accepted: once a
\* candidate has failed, no later candidate restores the verdict.
C16_RejectionIsPermanent ==
    last.op = "verify" =>
        \A n \in 0..Len(chain) :
            IF layer = "p2"
            THEN Rejects(p2_verify_sub_chain(anchor, Prefix(n))) => ~Accepts(last.base)
            ELSE /\ Rejects(p3_verify_sub_chain(anchor, Prefix(n))) => ~Accepts(last.base)
                 /\ Rejects(verify_sub_chain_even(anchor, Prefix(n))) => ~Accepts(last.even)
                 /\ Rejects(verify_sub_chain_odd(anchor, Prefix(n))) => ~Accepts(last.odd)

\* An odd state above FORK_HEIGHT followed by an even one: the baseline
\* accepts both headers, the even rule has rejected since the first.
C16_Witness ==
    /\ layer = "p3" /\ IsVerify /\ Len(chain) >= 2
    /\ anchor.height > FORK_HEIGHT
    /\ chain[1].state % 2 = 1 /\ chain[2].state % 2 = 0
    /\ Rejects(verify_sub_chain_even(anchor, Prefix(1)))
    /\ Accepts(last.base) /\ Rejects(last.even)

\* C17: the Consensus Layer verifiers test the digest of candidates only,
\* never of the anchor: a chain built by child on genesis is accepted by the
\* baseline verifier whatever the digest of genesis, and a sequence with a
\* candidate whose digest is not below THRESHOLD is accepted by none of the
\* three.
C17_AnchorExemptFromPow ==
    (layer = "p3" /\ IsVerify) =>
        /\ BuiltFromGenesis => last.base.value
        /\ (\E i \in 1..Len(chain) : p3_hash(chain[i]) >= THRESHOLD) =>
              (~last.base.value /\ ~last.even.value /\ ~last.odd.value)

\* The baseline verifier of the layer.
verify(self, sub) ==
    IF layer = "p2" THEN p2_verify_sub_chain(self, sub)
    ELSE p3_verify_sub_chain(self, sub)

\* C18: for the baseline verifier of each layer and every split of the
\* candidates into a non-empty xs and ys, verifying xs ++ ys against the
\* anchor gives true if and only if verifying xs against the anchor and ys
\* against the last header of xs both give true.
C18_VerifyComposes ==
    last.op = "verify" =>
        \A n \in 1..Len(chain) :
            LET xs == Prefix(n)
                ys == SubSeq(chain, n + 1, Len(chain))
                first == verify(anchor, xs)
                rest == verify(xs[n], ys)
            IN  (~last.base.panicked /\ ~first.panicked /\ ~rest.panicked) =>
                    (last.base.value <=> (first.value /\ rest.value))

====
